---- MODULE Spec2Model ----
(***************************************************************************)
(* State-machine model of openstack_auth/views.py: the login, logout,      *)
(* switch (tenant), switch_region and cas_login request handlers working   *)
(* on one browser session, and the delete_all_tokens threads that logout   *)
(* starts.  Every handler is one action: a request runs from its first     *)
(* line to its return.  The identity service, the login form and the       *)
(* request parameters are inputs drawn with \E.                            *)
(***************************************************************************)
EXTENDS Integers, Sequences, FiniteSets, TLC

VARIABLES
    settings,   \* django.conf.settings: AVAILABLE_REGIONS, OPENSTACK_KEYSTONE_URL
    session,    \* request.session as persisted between requests (key -> value)
    reapers,    \* the running Thread(target=delete_all_tokens) objects
    last,       \* what the last request did: handler, inputs, response
    inflight    \* requests that have loaded the session and not yet saved it

vars == <<settings, session, reapers, last, inflight>>

-----------------------------------------------------------------------------
(* Bounds of the model *)

\* longest session['token_list'] a request may extend
MaxTokens == 2
\* most delete_all_tokens threads alive at once
MaxReapers == 1
\* longest session['token_list'] a session of SpecReaper starts with
MaxList == 3

\* user ids (pk) the identity service knows
UserIds == {"alice", "bob"}
\* region_name arguments of switch_region
RegionNames == {"A", "B", "C"}

None == "None"

-----------------------------------------------------------------------------
(* settings *)

\* the configurations checked: (auth_url, display name) pairs plus the
\* keystone url; a plain one, and one in which a display name and an auth_url
\* are each listed twice and the keystone url is no configured region
Configs ==
    { [AVAILABLE_REGIONS |-> << <<"u1", "A">>, <<"u2", "B">> >>,
       OPENSTACK_KEYSTONE_URL |-> "u1"],
      [AVAILABLE_REGIONS |-> << <<"u1", "A">>, <<"u1", "B">>, <<"u2", "A">> >>,
       OPENSTACK_KEYSTONE_URL |-> "u3"] }

\* settings.LOGIN_REDIRECT_URL
LOGIN_REDIRECT_URL == <<"/", "home">>

\* request.get_host()
Host == "myapp.example"

-----------------------------------------------------------------------------
(* URLs and is_safe_url *)

\* a URL is the sequence of its lexical parts; the redirect parameters tried
RedirectParams ==
    { << >>,
      <<"/", "dashboard">>,
      <<"http:", "//", "myapp.example", "/", "x">>,
      <<"http:", "//", "evil.example", "/", "x">>,
      <<"//", "evil.example", "/", "x">> }

Schemes == {"http:", "https:"}

\* urlparse(url)[1]: the part between a leading "//" (after an optional
\* scheme) and the next "/"
Netloc(url) ==
    LET rest == IF Len(url) > 0 /\ url[1] \in Schemes THEN Tail(url) ELSE url
    IN  IF Len(rest) >= 2 /\ rest[1] = "//" /\ rest[2] # "/"
        THEN rest[2]
        ELSE ""

\* django.utils.http.is_safe_url
is_safe_url(url, host) ==
    IF url = << >>
    THEN FALSE
    ELSE LET netloc == Netloc(url) IN netloc = "" \/ netloc = host

\* a mutant: the redirect parameter is used unchecked
SafeRedirect_unchecked(redirect_to) == redirect_to

\* lines 128-130 / 177-179 / 228-230
SafeRedirect(redirect_to) ==
    IF ~is_safe_url(redirect_to, Host) THEN LOGIN_REDIRECT_URL ELSE redirect_to

-----------------------------------------------------------------------------
(* the session mapping *)

EmptySession == [k \in {} |-> None]

Has(s, k) == k \in DOMAIN s

Get(s, k) == IF k \in DOMAIN s THEN s[k] ELSE None

Put(s, k, v) == [x \in (DOMAIN s) \cup {k} |-> IF x = k THEN v ELSE s[x]]

-----------------------------------------------------------------------------
(* users *)

\* django.contrib.auth.models.AnonymousUser
AnonymousUser ==
    [id |-> None, token |-> None, endpoint |-> None,
     authed |-> FALSE, backend |-> FALSE]

\* Python's None where a user is expected: what authenticate returns when no
\* backend accepts the credentials
NoUser ==
    [id |-> "-", token |-> "-", endpoint |-> "-",
     authed |-> FALSE, backend |-> FALSE]

\* request.user as the authentication middleware rebuilds it from the session
\* at the start of a request; has_backend: whether that object carries the
\* `backend` attribute django's login() reads
GetUser(s, has_backend) ==
    IF Has(s, "user_id") /\ s["user_id"] # None
    THEN [id |-> s["user_id"], token |-> Get(s, "token"),
          endpoint |-> Get(s, "region_endpoint"),
          authed |-> TRUE, backend |-> has_backend]
    ELSE AnonymousUser

\* Scoped tokens are opaque to the views, which never compare them: the
\* token the identity service issues to user `id` is named by the place it
\* will take in the session's token_list (a session of another user is
\* flushed at login, see django_do_login)
NewToken(s, id) ==
    LET kept == ~(Has(s, "user_id") /\ s["user_id"] # id)
        held == IF Has(s, "token_list") /\ kept
                THEN Len(s["token_list"]) ELSE 0
    IN  "t" \o ToString(held + 1)

RaiseReply == [kind |-> "raise", id |-> "-", token |-> "-", authed |-> FALSE]

\* what the identity service / authentication backend can answer to
\* django_auth(...) in a request on session s: a user (authenticated, or not,
\* e.g. with a token that is no longer valid), None, or an exception of the
\* backend
AuthReplies(s) ==
    { [kind |-> "user", id |-> i, token |-> NewToken(s, i), authed |-> a] :
         i \in UserIds, a \in BOOLEAN }
    \cup { [kind |-> "none", id |-> "-", token |-> "-", authed |-> FALSE],
           RaiseReply }

\* the value of django_auth(..., auth_url=auth_url) for a reply that is no
\* exception: authenticate() marks the user it returns with its backend
django_auth(reply, auth_url) ==
    IF reply.kind = "user"
    THEN [id |-> reply.id, token |-> reply.token, endpoint |-> auth_url,
          authed |-> reply.authed, backend |-> TRUE]
    ELSE NoUser

-----------------------------------------------------------------------------
(* a request being handled *)

\* request: the session, request.user, the session keys assigned so far, the
\* (auth_url, unscoped_token) handed to django_auth, whether the session
\* was flushed / an exception is propagating, and the argument lists of the
\* delete_all_tokens threads the request started
NewRequest(s, has_backend) ==
    [session |-> s, user |-> GetUser(s, has_backend), written |-> {},
     authcall |-> << >>, flushed |-> FALSE, raised |-> FALSE,
     threads |-> << >>]

\* request.session[k] = v
SetKey(req, k, v) ==
    [req EXCEPT !.session = Put(@, k, v), !.written = @ \cup {k}]

\* what a handler hands back: the session to persist and the response
Result(req, kind, target) ==
    [session |-> req.session, resp |-> kind, target |-> target,
     written |-> req.written, authcall |-> req.authcall,
     flushed |-> req.flushed, threads |-> req.threads]

\* an exception leaves the handler: the framework answers with its error page
Raise(req) == Result(req, "exception", << >>)

\* shortcuts.redirect(redirect_to)
Redirect(req, redirect_to) == Result(req, "redirect", redirect_to)

\* a mutant: the framework logout also starts the thread deleting the tokens
django_logout_reaping(req) ==
    Result([req EXCEPT !.session = EmptySession, !.user = AnonymousUser,
                       !.flushed = TRUE,
                       !.threads = IF Has(req.session, "token_list")
                                   THEN << req.session["token_list"] >>
                                   ELSE << >>],
           "logout", << >>)

\* django.contrib.auth.views.logout_then_login: auth.logout flushes the
\* session, then redirects to the login page
django_logout(req) ==
    Result([req EXCEPT !.session = EmptySession, !.user = AnonymousUser,
                       !.flushed = TRUE],
           "logout", << >>)

\* django.contrib.auth.login(request, user): a None user means request.user;
\* a session of another user is flushed; the user id is stored; the `backend`
\* attribute of the user is read (AttributeError when it has none)
django_do_login(req, user) ==
    LET u  == IF user = NoUser THEN req.user ELSE user
        fl == Has(req.session, "user_id") /\ req.session["user_id"] # u.id
        r0 == IF fl
              THEN [req EXCEPT !.session = EmptySession, !.flushed = TRUE]
              ELSE req
        r1 == SetKey(r0, "user_id", u.id)
    IN  IF ~u.backend
        THEN [r1 EXCEPT !.raised = TRUE]
        ELSE [r1 EXCEPT !.user = u]

\* .user.set_session_from_user: the Session Projector's own writes
set_session_from_user(req, user) ==
    LET tl == IF Has(req.session, "token_list")
              THEN req.session["token_list"] ELSE << >>
        r1 == SetKey(req, "token_list",
                     Append(tl, <<user.endpoint, user.token>>))
        r2 == SetKey(r1, "token", user.token)
        r3 == SetKey(r2, "user_id", user.id)
    IN  SetKey(r3, "region_endpoint", user.endpoint)

\* .forms.Login.get_region_choices()
get_region_choices == settings.AVAILABLE_REGIONS

\* dict(pairs).get(key): the value of the last pair with that key, else None
DictGet(pairs, key) ==
    LET idx == {i \in 1..Len(pairs) : pairs[i][1] = key}
    IN  IF idx = {}
        THEN None
        ELSE pairs[CHOOSE i \in idx : \A j \in idx : j <= i][2]

\* lines 169-174 / 219-224 / 69-74: project request.user into the session
ProjectUser(req) ==
    LET r1 == set_session_from_user(req, req.user)
        region == req.user.endpoint
        region_name == DictGet(get_region_choices, region)
        r2 == SetKey(r1, "region_endpoint", region)
    IN  SetKey(r2, "region_name", region_name)

-----------------------------------------------------------------------------
(* switch_region *)

\* a mutant: the filter on the display name is lost
RegionUrls_unfiltered(region_name) ==
    [i \in 1..Len(settings.AVAILABLE_REGIONS) |->
        settings.AVAILABLE_REGIONS[i][1]]

\* line 146: [r[0] for r in available_regs if r[1] == region_name]
RegionUrls(region_name) ==
    LET sel == SelectSeq(settings.AVAILABLE_REGIONS,
                         LAMBDA r : r[2] = region_name)
    IN  [i \in 1..Len(sel) |-> sel[i][1]]

\* a mutant: the last match is taken
ResolveAuthUrl_last(region_urls) == region_urls[Len(region_urls)]

\* line 150: auth_url = region_urls[0]
ResolveAuthUrl(region_urls) == region_urls[1]

\* a mutant: the token looked up is the one of the region the session is in
CachedToken_current(s, auth_url) ==
    LET key == Get(s, "region_endpoint")
    IN  IF Has(s, "region_tokens") /\ key \in DOMAIN s["region_tokens"]
        THEN [found |-> TRUE, region_tokens |-> s["region_tokens"],
              unscoped_token |-> s["region_tokens"][key]]
        ELSE [found |-> FALSE, region_tokens |-> << >>,
              unscoped_token |-> None]

\* a mutant: the KeyError is swallowed and the switch goes on without a token
CachedToken_fallthrough(s, auth_url) ==
    LET region_tokens == IF Has(s, "region_tokens")
                         THEN s["region_tokens"] ELSE << >>
    IN  [found |-> TRUE, region_tokens |-> region_tokens,
         unscoped_token |-> IF auth_url \in DOMAIN region_tokens
                            THEN region_tokens[auth_url] ELSE None]

\* lines 153-157: region_tokens and region_tokens[auth_url], or the KeyError
\* of either lookup (found = FALSE)
CachedToken(s, auth_url) ==
    IF Has(s, "region_tokens") /\ auth_url \in DOMAIN s["region_tokens"]
    THEN [found |-> TRUE, region_tokens |-> s["region_tokens"],
          unscoped_token |-> s["region_tokens"][auth_url]]
    ELSE [found |-> FALSE, region_tokens |-> << >>, unscoped_token |-> None]

\* a mutant: region_tokens is not written back after the login
SwitchRegionLogin_nowrite(req, user, region_tokens, redirect_to) ==
    LET r1 == django_do_login(req, user)
    IN  IF r1.raised THEN Raise(r1)
        ELSE IF ~r1.user.authed THEN django_logout(r1)
        ELSE Redirect(ProjectUser(r1), SafeRedirect(redirect_to))

\* lines 165-182, with `user` the value django_auth returned
SwitchRegionLogin(req, user, region_tokens, redirect_to) ==
    LET r1 == django_do_login(req, user)
    IN  IF r1.raised THEN Raise(r1)
        ELSE IF ~r1.user.authed THEN django_logout(r1)
        ELSE LET r2 == ProjectUser(r1)
                 r3 == SetKey(r2, "region_tokens", region_tokens)
             IN  Redirect(r3, SafeRedirect(redirect_to))

\* lines 138-182
switch_region(s, region_name, redirect_to, reply, has_backend) ==
    LET req  == NewRequest(s, has_backend)
        urls == RegionUrls(region_name)
    IN  IF ~req.user.authed THEN Result(req, "login_required", << >>)
        ELSE IF urls = << >> THEN django_logout(req)
        ELSE LET auth_url == ResolveAuthUrl(urls)
                 cached == CachedToken(s, auth_url)
             IN  IF ~cached.found THEN django_logout(req)
                 ELSE LET r0 == [req EXCEPT !.authcall =
                                    <<auth_url, cached.unscoped_token>>]
                      IN  IF reply.kind = "raise" THEN Raise(r0)
                          ELSE SwitchRegionLogin(r0,
                                   django_auth(reply, auth_url),
                                   cached.region_tokens, redirect_to)

-----------------------------------------------------------------------------
(* switch (tenant) *)

\* what client.tokens.authenticate can answer: a scoped token, or a
\* keystone_exceptions.ClientException
TenantReplies(s) == {NewToken(s, Get(s, "user_id")), "ClientException"}

\* .user.create_user_from_token(request, token, endpoint): the same identity,
\* bound to the new token
create_user_from_token(req, token, endpoint) ==
    [id |-> req.user.id, token |-> token, endpoint |-> endpoint,
     authed |-> TRUE, backend |-> FALSE]

\* a mutant: the tenant switch goes to the default identity endpoint
SwitchEndpoint_keystone(req) == settings.OPENSTACK_KEYSTONE_URL

\* line 110: endpoint = request.user.endpoint
SwitchEndpoint(req) == req.user.endpoint

\* a mutant: the session is projected whether or not a token came back
switch_always(s, redirect_to, reply) ==
    LET r0 == NewRequest(s, FALSE)
        endpoint == SwitchEndpoint(r0)
        req == [r0 EXCEPT !.authcall = <<endpoint, r0.user.token>>]
        token == IF reply = "ClientException" THEN None ELSE reply
    IN  IF ~r0.user.authed THEN Result(r0, "login_required", << >>)
        ELSE Redirect(set_session_from_user(req,
                          create_user_from_token(req, token, endpoint)),
                      SafeRedirect(redirect_to))

\* lines 104-135
switch(s, redirect_to, reply) ==
    LET r0 == NewRequest(s, FALSE)
        endpoint == SwitchEndpoint(r0)
        req == [r0 EXCEPT !.authcall = <<endpoint, r0.user.token>>]
        token == IF reply = "ClientException" THEN None ELSE reply
        target == SafeRedirect(redirect_to)
    IN  IF ~r0.user.authed THEN Result(r0, "login_required", << >>)
        ELSE IF token # None
        THEN Redirect(set_session_from_user(req,
                          create_user_from_token(req, token, endpoint)),
                      target)
        ELSE Redirect(req, target)

-----------------------------------------------------------------------------
(* cas_login and _unscoped_token_login *)

\* a mutant: region_tokens is written whether or not one was passed
unscoped_token_login_writeall(req, auth_url, token, region_tokens, redirect_to, reply) ==
    LET r0 == [req EXCEPT !.authcall = <<auth_url, token>>]
    IN  IF reply.kind = "raise" THEN Raise(r0)
        ELSE LET r1 == django_do_login(r0, django_auth(reply, auth_url))
             IN  IF r1.raised THEN Raise(r1)
                 ELSE IF ~r1.user.authed THEN django_logout(r1)
                 ELSE Redirect(SetKey(ProjectUser(r1), "region_tokens",
                                      region_tokens),
                               SafeRedirect(redirect_to))

\* lines 206-233; region_tokens is the optional mapping (empty when not given)
unscoped_token_login(req, auth_url, token, region_tokens, redirect_to, reply) ==
    LET r0 == [req EXCEPT !.authcall = <<auth_url, token>>]
    IN  IF reply.kind = "raise" THEN Raise(r0)
        ELSE LET r1 == django_do_login(r0, django_auth(reply, auth_url))
             IN  IF r1.raised THEN Raise(r1)
                 ELSE IF ~r1.user.authed THEN django_logout(r1)
                 ELSE LET r2 == ProjectUser(r1)
                          r3 == IF DOMAIN region_tokens # {}
                                THEN SetKey(r2, "region_tokens", region_tokens)
                                ELSE r2
                      IN  Redirect(r3, SafeRedirect(redirect_to))

\* what the POST to auth_url + "/tokens" can give: the body asked for
\* (a token id, or the login url), or a failure of the request
CasReplies == {"cas-token", "error"}

\* the external login page _retrieve_cas_url returns
CasLoginUrl == <<"https:", "//", "cas.example", "/", "login">>

\* lines 237-247; ticket is None or a ticket
cas_login(s, ticket, cas, redirect_to, reply, has_backend) ==
    LET req == NewRequest(s, has_backend)
        auth_url == settings.OPENSTACK_KEYSTONE_URL
    IN  IF ticket # None
        THEN IF cas = "error" THEN Raise(req)
             ELSE unscoped_token_login(req, auth_url, cas, << >>,
                                       redirect_to, reply)
        ELSE IF cas = "error" THEN Raise(req)
             ELSE Result(req, "external", CasLoginUrl)

-----------------------------------------------------------------------------
(* login *)

\* the unscoped token the identity service of a region gives the user
UnscopedToken(auth_url) == "unscoped-" \o auth_url

\* the region_tokens mappings the login form can leave in the session: the
\* unscoped tokens of any set of configured auth_urls (none when empty)
RegionTokenMaps ==
    LET urls == {settings.AVAILABLE_REGIONS[i][1] :
                    i \in 1..Len(settings.AVAILABLE_REGIONS)}
    IN  {[u \in D |-> UnscopedToken(u)] : D \in SUBSET urls}

\* what validating the Login form can give: invalid, or a user authenticated
\* against the chosen region, with the unscoped tokens of the regions
InvalidForm ==
    [valid |-> FALSE, id |-> "-", token |-> "-", region |-> "-",
     region_tokens |-> << >>]

Forms(s) ==
    { InvalidForm }
    \cup { [valid |-> TRUE, id |-> i, token |-> NewToken(s, i),
            region |-> u, region_tokens |-> m] :
              i \in UserIds,
              u \in {get_region_choices[k][1] :
                        k \in 1..Len(get_region_choices)},
              m \in RegionTokenMaps }

\* django.contrib.auth.views.login with authentication_form=Login: a valid
\* POST logs the form's user in and redirects, anything else renders the page
django_login(req, method, form) ==
    IF method = "POST" /\ form.valid
    THEN LET user == [id |-> form.id, token |-> form.token,
                      endpoint |-> form.region, authed |-> TRUE,
                      backend |-> TRUE]
             r1 == django_do_login(req, user)
             r2 == IF DOMAIN form.region_tokens # {}
                   THEN SetKey(r1, "region_tokens", form.region_tokens)
                   ELSE r1
         IN  [req |-> r2, kind |-> "redirect",
              target |-> LOGIN_REDIRECT_URL]
    ELSE [req |-> req, kind |-> "page", target |-> << >>]

\* lines 36-75
login(s, method, form) ==
    LET req == NewRequest(s, FALSE)
        res == django_login(req, method, form)
    IN  IF res.req.user.authed
        THEN Result(ProjectUser(res.req), res.kind, res.target)
        ELSE Result(res.req, res.kind, res.target)

-----------------------------------------------------------------------------
(* logout and delete_all_tokens *)

\* a mutant: no thread is started, the tokens are deleted before returning
LogoutThreads_inline(s) == << >>

\* a mutant: the test of line 82 is lost, a thread is started for any session
LogoutThreads_unconditional(s) ==
    << IF Has(s, "token_list") THEN s["token_list"] ELSE << >> >>

\* lines 82-85: the argument lists of the threads started (none or one)
LogoutThreads(s) ==
    IF Has(s, "token_list") THEN << s["token_list"] >> ELSE << >>

\* lines 78-87
logout(s) ==
    LET req == NewRequest(s, FALSE)
    IN  django_logout([req EXCEPT !.threads = LogoutThreads(s)])

\* a thread running delete_all_tokens(token_list): its argument, the index of
\* the next pair of the for loop, and the deletions attempted so far;
\* at_dispatch records session['token_list'] when the thread was started
NewReaper(token_list, at_dispatch) ==
    [token_list |-> token_list, i |-> 1, attempts |-> << >>,
     at_dispatch |-> at_dispatch]

\* a mutant: the loop runs over the session's list, not over a copy
ReaperList_shared(r) ==
    IF Has(session, "token_list") THEN session["token_list"] ELSE << >>

\* the list the for loop of line 92 runs over: the thread's own argument
ReaperList(r) == r.token_list

\* what client.tokens.delete can do
DeleteReplies == {"ok", "ClientException"}

\* a mutant: a failed deletion is tried again
delete_one_retry(r, reply) ==
    LET token_tuple == ReaperList(r)[r.i]
    IN  [r EXCEPT !.attempts = Append(@, <<token_tuple, reply>>),
                  !.i = IF reply = "ClientException" THEN @ ELSE @ + 1]

\* a mutant: the try encloses the loop, so a failure ends it
delete_one_break(r, reply) ==
    LET token_tuple == ReaperList(r)[r.i]
    IN  [r EXCEPT !.attempts = Append(@, <<token_tuple, reply>>),
                  !.i = IF reply = "ClientException"
                        THEN Len(ReaperList(r)) + 1 ELSE @ + 1]

\* lines 92-101: one iteration; an exception is logged and the loop goes on
delete_one(r, reply) ==
    LET token_tuple == ReaperList(r)[r.i]
    IN  [r EXCEPT !.attempts = Append(@, <<token_tuple, reply>>),
                  !.i = @ + 1]

ReaperDone(r) == r.i > Len(ReaperList(r))

-----------------------------------------------------------------------------
(* the state machine *)

TokenList(s) == IF Has(s, "token_list") THEN s["token_list"] ELSE << >>

NoRequest ==
    [op |-> "-", arg |-> "-", next |-> << >>, auth |-> "-",
     resp |-> "-", target |-> << >>, written |-> {},
     authcall |-> << >>, flushed |-> FALSE, stale |-> {}]

\* the outcome of an authentication reply, as the claims speak of it
ReplyKind(reply) ==
    IF reply.kind = "user"
    THEN (IF reply.authed THEN "user" ELSE "unauthenticated")
    ELSE reply.kind

\* a mutant: only the keys the request assigned are stored
SessionSave_merge(store, r) ==
    IF r.flushed THEN r.session
    ELSE [k \in (DOMAIN store) \cup r.written |->
            IF k \in r.written THEN r.session[k] ELSE store[k]]

\* what the session store holds once a request with result r is over: the
\* request's session object, saved whole, if the request modified it
SessionSave(store, r) ==
    IF r.written = {} /\ ~r.flushed THEN store ELSE r.session

\* the region fields that another request has stored since this request
\* loaded the session
StaleKeys(loaded, store) ==
    {k \in {"region_endpoint", "region_name", "region_tokens"} :
        \/ Has(loaded, k) # Has(store, k)
        \/ Has(loaded, k) /\ loaded[k] # store[k]}

\* the request is over: the session is saved, the response goes out, the
\* threads it started run on
Answer(op, arg, next, auth, r, loaded) ==
    /\ Len(reapers) + Len(r.threads) <= MaxReapers
    /\ reapers' = reapers \o [k \in 1..Len(r.threads) |->
                                NewReaper(r.threads[k], TokenList(session))]
    /\ session' = SessionSave(session, r)
    /\ last' = [op |-> op, arg |-> arg,
                next |-> IF r.resp = "redirect" THEN next ELSE << >>,
                auth |-> auth,
                resp |-> r.resp, target |-> r.target, written |-> r.written,
                authcall |-> r.authcall, flushed |-> r.flushed,
                stale |-> StaleKeys(loaded, session)]

\* a request handled with no other request of the session in between
Respond(op, arg, next, auth, r) ==
    /\ Len(TokenList(r.session)) <= MaxTokens
    /\ Answer(op, arg, next, auth, r, session)
    /\ UNCHANGED inflight

\* The inputs tried.  An input a request cannot read is not varied: the
\* `backend` attribute of request.user is read only when authenticate gave
\* None, the redirect parameter only when a user is logged in

BackendsRead(reply) == IF reply.kind = "none" THEN BOOLEAN ELSE {TRUE}

RedirectsRead(reply) ==
    IF reply.kind = "raise" \/ (reply.kind = "user" /\ ~reply.authed)
    THEN {<< >>}
    ELSE RedirectParams

Init ==
    /\ settings \in Configs
    /\ session = EmptySession
    /\ reapers = << >>
    /\ last = NoRequest
    /\ inflight = << >>

Login ==
    \E method \in {"GET", "POST"} :
      \E form \in (IF method = "POST" THEN Forms(session)
                   ELSE {InvalidForm}) :
        LET r == login(session, method, form)
        IN  /\ Respond("login", method, << >>,
                       IF method = "POST"
                       THEN (IF form.valid THEN "user" ELSE "invalid")
                       ELSE "-",
                       r)
            /\ UNCHANGED settings

Logout ==
    /\ Respond("logout", "-", << >>, "-", logout(session))
    /\ UNCHANGED settings

Switch ==
    \E redirect_to \in RedirectParams, reply \in TenantReplies(session) :
        LET r == switch(session, redirect_to, reply)
        IN  /\ Respond("switch", "-", redirect_to,
                       IF r.resp = "login_required" THEN "-"
                       ELSE IF reply = "ClientException" THEN reply
                       ELSE "token",
                       r)
            /\ UNCHANGED settings

SwitchRegion ==
    \E region_name \in RegionNames :
      \E reply \in AuthReplies(session) :
      \E has_backend \in BackendsRead(reply),
         redirect_to \in RedirectsRead(reply) :
        LET r == switch_region(session, region_name, redirect_to, reply,
                               has_backend)
        IN  /\ Respond("switch_region", region_name, redirect_to,
                       IF r.authcall = << >> THEN "-" ELSE ReplyKind(reply),
                       r)
            /\ UNCHANGED settings

CasLogin ==
    \E ticket \in {None, "ST-1"}, cas \in CasReplies :
      \E reply \in (IF ticket = None \/ cas = "error"
                    THEN {RaiseReply} ELSE AuthReplies(session)) :
      \E has_backend \in BackendsRead(reply),
         redirect_to \in RedirectsRead(reply) :
        LET r == cas_login(session, ticket, cas, redirect_to, reply,
                           has_backend)
        IN  /\ Respond("cas_login", ticket, redirect_to,
                       IF r.authcall = << >> THEN "-" ELSE ReplyKind(reply),
                       r)
            /\ UNCHANGED settings

\* a delete_all_tokens thread runs one iteration of its loop
DeleteToken ==
    \E k \in 1..Len(reapers), reply \in DeleteReplies :
        /\ ~ReaperDone(reapers[k])
        /\ reapers' = [reapers EXCEPT ![k] = delete_one(@, reply)]
        /\ UNCHANGED <<settings, session, last, inflight>>

\* a delete_all_tokens thread returns
ReaperExit ==
    \E k \in 1..Len(reapers) :
        /\ ReaperDone(reapers[k])
        /\ reapers' = [j \in 1..(Len(reapers) - 1) |->
                          IF j < k THEN reapers[j] ELSE reapers[j + 1]]
        /\ UNCHANGED <<settings, session, last, inflight>>

\* a delete_all_tokens thread runs its whole loop and returns
ReaperRun ==
    \E k \in 1..Len(reapers) :
        /\ reapers' = [j \in 1..(Len(reapers) - 1) |->
                          IF j < k THEN reapers[j] ELSE reapers[j + 1]]
        /\ UNCHANGED <<settings, session, last, inflight>>

\* no delete_all_tokens thread is running
Idle == reapers = << >>

\* The requests of one browser session.  A thread reads and writes nothing a
\* request reads or writes, so the order of a thread's steps and a request
\* does not matter to either: here a thread that logout started runs, in one
\* step, before the next request is handled.  SpecReaper below interleaves
\* the iterations of the threads with requests.
Next ==
    \/ Idle /\ Login
    \/ Idle /\ Logout
    \/ Idle /\ Switch
    \/ Idle /\ SwitchRegion
    \/ Idle /\ CasLogin
    \/ ReaperRun

Spec == Init /\ [][Next]_vars

-----------------------------------------------------------------------------
(* logout and its threads, iteration by iteration *)

\* the auth_urls switch_region can resolve a display name to
ResolvedUrls(regions) ==
    {regions[i][1] : i \in {i \in 1..Len(regions) :
        \A j \in 1..(i - 1) : regions[j][2] # regions[i][2]}}

\* the token lists a session can have built up: the k-th pair holds the k-th
\* token; the first comes from login at any configured region, a later one
\* from switch (the region of the one before) or from switch_region
TokenLists(regions) ==
    LET urls == {regions[i][1] : i \in 1..Len(regions)}
    IN  UNION { {[k \in 1..n |-> <<f[k], "t" \o ToString(k)>>] :
                    f \in {g \in [1..n -> urls] :
                             \A k \in 2..n :
                                g[k] \in {g[k - 1]} \cup ResolvedUrls(regions)}}
                : n \in 0..MaxList }

\* the session a user holds after the projections that built token_list tl,
\* the login form having cached a token of every region
SessionOf(regions, tl) ==
    IF tl = << >>
    THEN EmptySession
    ELSE [user_id |-> "alice",
          token |-> tl[Len(tl)][2],
          region_endpoint |-> tl[Len(tl)][1],
          region_name |-> DictGet(regions, tl[Len(tl)][1]),
          region_tokens |-> [u \in {regions[i][1] : i \in 1..Len(regions)}
                                |-> UnscopedToken(u)],
          token_list |-> tl]

InitReaper ==
    /\ settings \in Configs
    /\ session \in {SessionOf(settings.AVAILABLE_REGIONS, tl) :
                       tl \in TokenLists(settings.AVAILABLE_REGIONS)}
    /\ reapers = << >>
    /\ last = NoRequest
    /\ inflight = << >>

NextReaper ==
    \/ Logout
    \/ Login
    \/ DeleteToken
    \/ ReaperExit

SpecReaper == InitReaper /\ [][NextReaper]_vars

-----------------------------------------------------------------------------
(* the thread of one logout, scheduled fairly *)

NextTermination ==
    \/ Logout
    \/ DeleteToken
    \/ ReaperExit

\* a started thread is scheduled until it returns, and client.tokens.delete
\* returns or raises
SpecTermination ==
    /\ InitReaper
    /\ [][NextTermination]_vars
    /\ WF_vars(DeleteToken)
    /\ WF_vars(ReaperExit)

-----------------------------------------------------------------------------
(* two switch requests of one session handled in parallel *)

\* the redirect parameter of the parallel requests
ParallelRedirects == {<< >>}

\* two requests, both started before either returns
Parallel == Len(inflight) < 2 /\ last = NoRequest

\* a switch request loads the session and runs up to its return
BeginSwitch ==
    \E redirect_to \in ParallelRedirects, reply \in TenantReplies(session) :
        LET r == switch(session, redirect_to, reply)
        IN  /\ Parallel
            /\ inflight' = Append(inflight,
                    [op |-> "switch", arg |-> "-", next |-> redirect_to,
                     auth |-> IF r.resp = "login_required" THEN "-"
                              ELSE IF reply = "ClientException" THEN reply
                              ELSE "token",
                     r |-> r, loaded |-> session])
            /\ UNCHANGED <<settings, session, reapers, last>>

\* a switch_region request loads the session and runs up to its return
BeginSwitchRegion ==
    \E region_name \in RegionNames :
      \E reply \in AuthReplies(session) :
      \E has_backend \in BackendsRead(reply),
         redirect_to \in RedirectsRead(reply) \cap ParallelRedirects :
        LET r == switch_region(session, region_name, redirect_to, reply,
                               has_backend)
        IN  /\ Parallel
            /\ inflight' = Append(inflight,
                    [op |-> "switch_region", arg |-> region_name,
                     next |-> redirect_to,
                     auth |-> IF r.authcall = << >> THEN "-"
                              ELSE ReplyKind(reply),
                     r |-> r, loaded |-> session])
            /\ UNCHANGED <<settings, session, reapers, last>>

\* a request in flight returns: its session is saved, its response goes out
Finish ==
    \E k \in 1..Len(inflight) :
        LET q == inflight[k]
        IN  /\ Answer(q.op, q.arg, q.next, q.auth, q.r, q.loaded)
            /\ inflight' = [j \in 1..(Len(inflight) - 1) |->
                               IF j < k THEN inflight[j] ELSE inflight[j + 1]]
            /\ UNCHANGED settings

\* the session of a user who has logged in, with a token of every region
InitParallel ==
    /\ settings \in Configs
    /\ session \in {SessionOf(settings.AVAILABLE_REGIONS, tl) :
                       tl \in {l \in TokenLists(settings.AVAILABLE_REGIONS) :
                                  Len(l) = 1}}
    /\ reapers = << >>
    /\ last = NoRequest
    /\ inflight = << >>

NextParallel ==
    \/ BeginSwitch
    \/ BeginSwitchRegion
    \/ Finish

SpecParallel == InitParallel /\ [][NextParallel]_vars

-----------------------------------------------------------------------------
(* Properties *)

Regions == settings.AVAILABLE_REGIONS

KnownNames == {Regions[i][2] : i \in 1..Len(Regions)}

RegionKeys == {"region_endpoint", "region_name", "region_tokens"}

\* a step of switch_region / of switch (a thread's step leaves `last` alone
\* and changes `reapers`)
SwitchRegionStep == last'.op = "switch_region" /\ reapers' = reapers

SwitchStep == last'.op = "switch" /\ reapers' = reapers

\* the session belongs to a logged-in user
LoggedIn(s) == "user_id" \in DOMAIN s /\ s["user_id"] # None

\* the auth_url of the first configured pair with this display name
FirstUrlNamed(name) ==
    LET i == CHOOSE i \in 1..Len(Regions) :
                /\ Regions[i][2] = name
                /\ \A j \in 1..(i - 1) : Regions[j][2] # name
    IN  Regions[i][1]

\* the display name of the last configured pair with this auth_url
LastNameOf(url) ==
    LET i == CHOOSE i \in 1..Len(Regions) :
                /\ Regions[i][1] = url
                /\ \A j \in (i + 1)..Len(Regions) : Regions[j][1] # url
    IN  Regions[i][2]

\* C1: whenever switch_region's re-authentication yields no user, or a user
\* that is not authenticated, the request ends in the logout outcome with the
\* session cleared and none of region_endpoint, region_name, region_tokens
\* written.  (Violated: with no user, login falls back to request.user.)
C1_FailedReauthLogsOut ==
    (last.op = "switch_region" /\ last.auth \in {"none", "unauthenticated"})
        => /\ last.resp = "logout"
           /\ session = EmptySession
           /\ last.written \cap RegionKeys = {}

\* C2: a switch_region request naming a region that is not configured ends in
\* the logout outcome (the login redirect of login_required when nobody is
\* logged in), leaves no logged-in session and never raises.
C2_UnknownRegionLogsOut ==
    (last.op = "switch_region" /\ last.arg \notin KnownNames)
        => /\ last.resp \in {"logout", "login_required"}
           /\ ~LoggedIn(session)
           /\ (last.resp = "logout" => session = EmptySession /\ last.flushed)
           /\ last.authcall = << >>

C2_Witness ==
    /\ last.op = "switch_region"
    /\ last.arg \notin KnownNames
    /\ last.resp = "logout"
    /\ last.flushed

\* C3: a switch_region request of a logged-in session that has no
\* region_tokens, or no entry in it for the auth_url the region name resolves
\* to, ends in the logout outcome with the session cleared and region_endpoint
\* and region_name unwritten, without calling the identity service.
C3_MissingTokenLogsOut ==
    [][ ( /\ SwitchRegionStep
          /\ LoggedIn(session)
          /\ last'.arg \in KnownNames
          /\ \/ "region_tokens" \notin DOMAIN session
             \/ FirstUrlNamed(last'.arg) \notin DOMAIN session["region_tokens"] )
        => /\ last'.resp = "logout"
           /\ session' = EmptySession
           /\ last'.written \cap {"region_endpoint", "region_name"} = {}
           /\ last'.authcall = << >> ]_vars

C3_Witness ==
    /\ last.op = "switch_region"
    /\ last.arg \in KnownNames
    /\ last.resp = "logout"
    /\ last.authcall = << >>
    /\ last.flushed

\* C4 as stated: for every configured region R whose auth_url has a cached
\* token that the identity service accepts, switch_region to R's display name
\* ends with region_endpoint = R's auth_url and region_name = R's display
\* name.  (Violated when another pair shares R's display name or auth_url.)
C4_SwitchReachesNamedRegion ==
    [][ \A i \in 1..Len(Regions) :
          ( /\ SwitchRegionStep
            /\ LoggedIn(session)
            /\ last'.arg = Regions[i][2]
            /\ "region_tokens" \in DOMAIN session
            /\ Regions[i][1] \in DOMAIN session["region_tokens"]
            /\ last'.auth \in {"user", "-"} )
          => /\ "region_endpoint" \in DOMAIN session'
             /\ "region_name" \in DOMAIN session'
             /\ session'["region_endpoint"] = Regions[i][1]
             /\ session'["region_name"] = Regions[i][2] ]_vars

\* C4 amended: when the auth_url of the first configured pair with the
\* requested display name has a cached token that the identity service
\* accepts, switch_region ends with region_endpoint = that auth_url and
\* region_name = the display name of the last configured pair with that
\* auth_url.
C4_SwitchReachesFirstNamed ==
    [][ ( /\ SwitchRegionStep
          /\ LoggedIn(session)
          /\ last'.arg \in KnownNames
          /\ "region_tokens" \in DOMAIN session
          /\ FirstUrlNamed(last'.arg) \in DOMAIN session["region_tokens"]
          /\ last'.auth \in {"user", "-"} )
        => /\ last'.resp = "redirect"
           /\ "region_endpoint" \in DOMAIN session'
           /\ "region_name" \in DOMAIN session'
           /\ session'["region_endpoint"] = FirstUrlNamed(last'.arg)
           /\ session'["region_name"] =
                  LastNameOf(FirstUrlNamed(last'.arg)) ]_vars

\* a switch to "A" that succeeded and left the display name of another pair
C4_Witness ==
    /\ last.op = "switch_region"
    /\ last.auth = "user"
    /\ last.resp = "redirect"
    /\ last.arg = "A"
    /\ "region_name" \in DOMAIN session
    /\ session["region_name"] = "B"
    /\ session["region_endpoint"] = "u1"

\* C5: every switch_region request that ends in a redirect leaves
\* session['region_tokens'] equal to what it was before the request, whether
\* or not the login in between reset the session.
C5_RegionTokensPreserved ==
    [][ (SwitchRegionStep /\ last'.resp = "redirect")
        => /\ "region_tokens" \in DOMAIN session
           /\ "region_tokens" \in DOMAIN session'
           /\ session'["region_tokens"] = session["region_tokens"] ]_vars

\* a switch that went through a session reset, and one right after a switch
C5_Witness ==
    /\ last.op = "switch_region"
    /\ last.resp = "redirect"
    /\ last.auth = "user"
    /\ last.flushed
    /\ "region_tokens" \in DOMAIN session
    /\ Cardinality(DOMAIN session["region_tokens"]) = 2

\* C6: a switch request whose authentication raises the client error leaves
\* the whole session as it was, projects nothing and still answers with a
\* redirect.
C6_FailedSwitchKeepsSession ==
    [][ (SwitchStep /\ last'.auth = "ClientException")
        => /\ session' = session
           /\ last'.written = {}
           /\ ~last'.flushed
           /\ last'.resp = "redirect" ]_vars

C6_Witness ==
    /\ last.op = "switch"
    /\ last.auth = "ClientException"
    /\ last.resp = "redirect"
    /\ "token_list" \in DOMAIN session
    /\ Len(session["token_list"]) = 2

\* C7: a delete_all_tokens thread started with N pairs attempts the pairs one
\* after the other whatever the outcomes: after k attempts, failed or not, it
\* is at pair k+1, and it returns only when it has attempted all N.
C7_FailureDoesNotStopReaper ==
    \A n \in 1..Len(reapers) :
        LET r == reapers[n]
        IN  /\ Len(r.attempts) <= Len(r.at_dispatch)
            /\ r.i = Len(r.attempts) + 1
            /\ ReaperDone(r) <=> Len(r.attempts) = Len(r.at_dispatch)

\* a thread that attempted all three pairs although the first two failed
C7_Witness ==
    \E n \in 1..Len(reapers) :
        /\ Len(reapers[n].at_dispatch) = 3
        /\ Len(reapers[n].attempts) = 3
        /\ reapers[n].attempts[1][2] = "ClientException"
        /\ reapers[n].attempts[2][2] = "ClientException"

\* C8: logout always answers with the logout redirect, whatever the threads'
\* deletions do before or after; and it returns with its thread started and
\* every deletion of that thread still pending.
C8_LogoutNeverWaits ==
    /\ [](last.op = "logout" =>
            (last.resp = "logout" /\ session = EmptySession))
    /\ [][ (last'.op = "logout" /\ session' # session
                /\ "token_list" \in DOMAIN session)
           => /\ last'.resp = "logout"
              /\ Len(reapers') = Len(reapers) + 1
              /\ reapers'[Len(reapers')].attempts = << >>
              /\ reapers'[Len(reapers')].at_dispatch # << >> ]_vars

\* logout has answered, one deletion failed, another is still pending
C8_Witness ==
    /\ last.op = "logout"
    /\ last.resp = "logout"
    /\ \E n \in 1..Len(reapers) :
          /\ Len(reapers[n].attempts) = 1
          /\ reapers[n].attempts[1][2] = "ClientException"
          /\ Len(reapers[n].at_dispatch) > 1

\* C9: a delete_all_tokens thread works on the token_list of the moment it
\* was started: its list stays that list and the pairs it attempts are that
\* list's pairs in order, to the end, whatever happens to the session
\* meanwhile; and a step of a thread leaves the session as it is.
C9_ReaperWorksOnCopy ==
    /\ [](\A n \in 1..Len(reapers) :
            LET r == reapers[n]
            IN  /\ r.token_list = r.at_dispatch
                /\ Len(r.attempts) <= Len(r.at_dispatch)
                /\ \A k \in 1..Len(r.attempts) :
                      r.attempts[k][1] = r.at_dispatch[k]
                /\ ReaperDone(r) => Len(r.attempts) = Len(r.at_dispatch))
    /\ [][ (last' = last /\ reapers' # reapers) => session' = session ]_vars
    /\ [][ session' # session =>
              /\ Len(reapers') >= Len(reapers)
              /\ \A n \in 1..Len(reapers) : reapers'[n] = reapers[n] ]_vars

\* a thread in the middle of its list while the session, cleared by logout,
\* has been filled again by a login
C9_Witness ==
    /\ last.op = "login"
    /\ "token_list" \in DOMAIN session
    /\ \E n \in 1..Len(reapers) :
          /\ Len(reapers[n].attempts) = 1
          /\ Len(reapers[n].at_dispatch) = 3
          /\ reapers[n].at_dispatch # session["token_list"]

\* the url names another host
OffHost(url) ==
    \E i \in 1..(Len(url) - 1) :
        /\ url[i] = "//"
        /\ i = 1 \/ (i = 2 /\ url[1] \in Schemes)
        /\ url[i + 1] \notin {Host, "/"}

\* C10: when switch, switch_region or the unscoped-token login of cas_login
\* answers with a redirect, the target is the request's redirect parameter
\* if that is non-empty and not off-host, and LOGIN_REDIRECT_URL otherwise;
\* the target is never off-host.
C10_RedirectTargetSafe ==
    (last.op \in {"switch", "switch_region", "cas_login"}
        /\ last.resp = "redirect")
        => /\ last.target = IF last.next # << >> /\ ~OffHost(last.next)
                            THEN last.next ELSE LOGIN_REDIRECT_URL
           /\ ~OffHost(last.target)

\* an off-host redirect parameter was replaced by the default
C10_Witness ==
    /\ last.op \in {"switch", "switch_region", "cas_login"}
    /\ last.resp = "redirect"
    /\ OffHost(last.next)
    /\ last.target = LOGIN_REDIRECT_URL

\* C11: whenever login, switch_region, switch or cas_login writes
\* region_endpoint, region_name or region_tokens, the authentication call of
\* that request has returned success; a request whose authentication did not
\* succeed writes none of them.  (Violated: login projects the session of a
\* user who is already logged in whatever the form did, and switch_region
\* goes on with request.user when authenticate returns None.)
C11_RegionWritesFollowAuthSuccess ==
    (last.op \in {"login", "switch_region", "switch", "cas_login"}
        /\ last.written \cap RegionKeys # {})
        => last.auth \in {"user", "token"}

\* C12: no request of login, logout, switch, switch_region or cas_login ends
\* with an exception leaving the view: a failing identity-service call (the
\* ticket exchange or the login-url request of cas_login, authenticate in
\* switch_region and _unscoped_token_login, the token request of switch) ends
\* in a redirect.  (Violated: only switch catches anything.)
C12_NoFailurePropagates ==
    last.op \in {"login", "logout", "switch", "switch_region", "cas_login"}
        => last.resp # "exception"

\* the auth_urls of AVAILABLE_REGIONS
ConfiguredUrls == {Regions[i][1] : i \in 1..Len(Regions)}

\* C13: in every reachable session the keys of region_tokens are configured
\* auth_urls and region_endpoint, when set, is a configured auth_url.
\* (Violated: cas_login logs in at OPENSTACK_KEYSTONE_URL, which nothing ties
\* to AVAILABLE_REGIONS.)
C13_RegionFieldsConfigured ==
    /\ "region_tokens" \in DOMAIN session
          => DOMAIN session["region_tokens"] \subseteq ConfiguredUrls
    /\ ("region_endpoint" \in DOMAIN session
            /\ session["region_endpoint"] # None)
          => session["region_endpoint"] \in ConfiguredUrls

\* a step of logout that is not a repetition on an already cleared session
LogoutStep == last'.op = "logout" /\ <<session, last>>' # <<session, last>>

\* C14 as stated: every logout starts exactly one delete_all_tokens thread,
\* whatever the session holds.  (Violated by a session without token_list.)
C14_LogoutStartsOneThread ==
    [][ LogoutStep => Len(reapers') = Len(reapers) + 1 ]_vars

\* C14 amended: a logout of a session that has a token_list key starts
\* exactly one delete_all_tokens thread, handed that list; a logout of a
\* session without the key starts none.
C14_LogoutStartsThreadForTokenList ==
    [][ LogoutStep =>
          IF "token_list" \in DOMAIN session
          THEN /\ Len(reapers') = Len(reapers) + 1
               /\ reapers'[Len(reapers')].token_list = session["token_list"]
               /\ \A n \in 1..Len(reapers) : reapers'[n] = reapers[n]
          ELSE reapers' = reapers ]_vars

\* logout has started a thread for a list of two tokens
C14_Witness ==
    /\ last.op = "logout"
    /\ Len(reapers) = 1
    /\ Len(reapers[1].token_list) = 2
    /\ reapers[1].attempts = << >>

\* a step of cas_login
CasLoginStep == last'.op = "cas_login" /\ reapers' = reapers

\* C15: cas_login without a ticket calls no authentication, leaves the
\* session as it is and, the login url obtained, redirects to it; with a
\* ticket it authenticates at OPENSTACK_KEYSTONE_URL with the token the ticket
\* was exchanged for and never writes region_tokens: when the user comes back
\* authenticated it writes region_endpoint and region_name and redirects,
\* when the user comes back not authenticated it logs out.
C15_CasLoginOutcomes ==
    [][ CasLoginStep =>
          IF last'.arg = None
          THEN /\ last'.authcall = << >>
               /\ last'.written = {}
               /\ session' = session
               /\ last'.resp # "exception"
                     => last'.resp = "external" /\ last'.target = CasLoginUrl
          ELSE /\ "region_tokens" \notin last'.written
               /\ last'.resp # "external"
               /\ last'.authcall # << >> =>
                     last'.authcall =
                        <<settings.OPENSTACK_KEYSTONE_URL, "cas-token">>
               /\ last'.auth = "user" =>
                     /\ last'.resp = "redirect"
                     /\ {"region_endpoint", "region_name"}
                            \subseteq last'.written
                     /\ session'["region_endpoint"] =
                            settings.OPENSTACK_KEYSTONE_URL
               /\ last'.auth = "unauthenticated" =>
                     /\ last'.resp = "logout"
                     /\ session' = EmptySession ]_vars

\* a ticket login that succeeded in a session holding region_tokens
C15_Witness ==
    /\ last.op = "cas_login"
    /\ last.arg # None
    /\ last.auth = "user"
    /\ last.resp = "redirect"
    /\ "region_tokens" \in DOMAIN session
    /\ {"region_endpoint", "region_name"} \subseteq last.written

\* C16: a switch request that obtains a token authenticates at the endpoint
\* the session had (with the token the session had), answers with a
\* redirect and projects the new token without changing the region:
\* region_endpoint, region_name and the user are as before, region_tokens is
\* neither written nor changed.
C16_TenantSwitchKeepsRegion ==
    [][ (SwitchStep /\ last'.auth = "token") =>
          /\ last'.resp = "redirect"
          /\ "region_endpoint" \in DOMAIN session
          /\ last'.authcall = <<session["region_endpoint"], session["token"]>>
          /\ session'["region_endpoint"] = session["region_endpoint"]
          /\ session'["region_name"] = session["region_name"]
          /\ session'["user_id"] = session["user_id"]
          /\ session'["token"] # session["token"]
          /\ "region_tokens" \notin last'.written
          /\ ("region_tokens" \in DOMAIN session')
                = ("region_tokens" \in DOMAIN session)
          /\ "region_tokens" \in DOMAIN session
                => session'["region_tokens"] = session["region_tokens"] ]_vars

\* a tenant switch that succeeded in the second region
C16_Witness ==
    /\ last.op = "switch"
    /\ last.auth = "token"
    /\ last.resp = "redirect"
    /\ "region_tokens" \in DOMAIN session
    /\ session["region_endpoint"] = "u2"
    /\ session["token"] = "t2"

\* a request in flight returns
FinishStep == Len(inflight') = Len(inflight) - 1

\* the requests in flight one of which has just returned
Finished ==
    {k \in 1..Len(inflight) :
        inflight' = [j \in 1..(Len(inflight) - 1) |->
                        IF j < k THEN inflight[j] ELSE inflight[j + 1]]}

Exited ==
    {k \in 1..Len(reapers) :
        reapers' = [j \in 1..(Len(reapers) - 1) |->
                       IF j < k THEN reapers[j] ELSE reapers[j + 1]]}

\* C18: a delete_all_tokens thread returns, whatever the length of its list
\* and whatever the deletions do; its k-th attempt is on the k-th pair of the
\* list, so no pair is attempted twice and a failed one is not tried again;
\* and when it returns it has attempted every pair of the list.
C18_ReaperTerminates ==
    /\ [](\A n \in 1..Len(reapers) :
            LET r == reapers[n]
            IN  /\ Len(r.attempts) <= Len(r.token_list)
                /\ \A k \in 1..Len(r.attempts) :
                      r.attempts[k][1] = r.token_list[k])
    /\ [][ Len(reapers') < Len(reapers) =>
              \E k \in Exited :
                  Len(reapers[k].attempts) = Len(reapers[k].token_list) ]_vars
    /\ (reapers # << >>) ~> (reapers = << >>)

\* a thread about to return, after three attempts on its three pairs of
\* which the first and the last failed
C18_Witness ==
    /\ Len(reapers) = 1
    /\ Len(reapers[1].token_list) = 3
    /\ ReaperDone(reapers[1])
    /\ [k \in 1..3 |-> reapers[1].attempts[k][2]]
          = <<"ClientException", "ok", "ClientException">>

\* C19: switch_region resolves the region name, then looks the cached token
\* up, then authenticates.  A request of a logged-in session makes no call to
\* the identity service exactly when the name is not configured or
\* region_tokens has no entry for the auth_url of the first configured pair
\* with that name, and it then ends in the logout outcome with the session
\* cleared; otherwise it makes one call, at that auth_url with the token
\* region_tokens holds for that auth_url.
C19_ChecksBeforeAuthentication ==
    [][ (SwitchRegionStep /\ LoggedIn(session)) =>
          LET name == last'.arg
              nocall == \/ name \notin KnownNames
                        \/ "region_tokens" \notin DOMAIN session
                        \/ FirstUrlNamed(name)
                              \notin DOMAIN session["region_tokens"]
          IN  IF nocall
              THEN /\ last'.authcall = << >>
                   /\ last'.auth = "-"
                   /\ last'.resp = "logout"
                   /\ session' = EmptySession
              ELSE last'.authcall =
                      << FirstUrlNamed(name),
                         session["region_tokens"][FirstUrlNamed(name)] >> ]_vars

\* a switch to the name A, which two configured pairs carry: the call went to
\* the auth_url of the first of them, with the token cached for it, from a
\* session that was in the other region
C19_Witness ==
    /\ last.op = "switch_region"
    /\ last.arg = "A"
    /\ Len(Regions) = 3
    /\ last.authcall = << "u1", UnscopedToken("u1") >>
    /\ last.auth = "user"
    /\ Len(TokenList(session)) = 2
    /\ TokenList(session)[1][1] = "u2"

\* C20: a delete_all_tokens thread is started only by a logout request, and
\* only on a session that has the token_list key; a switch_region or
\* cas_login request that ends in the framework logout clears the session,
\* token_list included, and starts no thread.
C20_OnlyLogoutStartsReaper ==
    /\ [][ Len(reapers') > Len(reapers) =>
              /\ last'.op = "logout"
              /\ "token_list" \in DOMAIN session ]_vars
    /\ [][ (last'.op \in {"switch_region", "cas_login"}
                /\ last'.resp = "logout") =>
              /\ reapers' = reapers
              /\ session' = EmptySession ]_vars

\* a switch_region whose re-authentication gave an unauthenticated user: the
\* session is cleared and no thread runs
C20_Witness ==
    /\ last.op = "switch_region"
    /\ last.auth = "unauthenticated"
    /\ last.resp = "logout"
    /\ last.authcall # << >>
    /\ session = EmptySession
    /\ reapers = << >>

====
